---- MODULE Spec2Model ----
(***************************************************************************)
(* FaceDetectionApp (src/src/main.ts): the periodic detection cycle        *)
(* (detectFace), the overlay renderer with its object-fit: cover           *)
(* coordinate transform (displayImageDetections) and the anomaly banner    *)
(* (showAnomaly / hideAnomaly).                                            *)
(*                                                                         *)
(* JavaScript numbers are modelled as IEEE-754 doubles: every operation    *)
(* rounds its exact result to the nearest number of 53 significant bits.   *)
(***************************************************************************)
EXTENDS Integers, Sequences, FiniteSets, TLC

VARIABLES
    initPc,        \* position of initialize(): which awaited step is next
    faceDetector,  \* this.faceDetector: FALSE = null, TRUE = created
    timerOn,       \* the setInterval of startFaceDetection has been installed
    video,         \* this.video: videoWidth, videoHeight, offsetWidth, offsetHeight
    pending,       \* detectFace invocations suspended at `await detect(canvas)`
    nextFrame,     \* number of frames captured so far (createCanvasElement calls)
    detectCalls,   \* number of faceDetector.detect calls made so far
    liveView,      \* overlay elements currently appended to this.liveView
    children,      \* this.children
    warning,       \* warningText.textContent and the three class flags
    failed,        \* frames whose detector call failed
    last           \* observation of the most recent render (the frame, its inputs)

vars == <<initPc, faceDetector, timerOn, video, pending, nextFrame, detectCalls,
          liveView, children, warning, failed, last>>

-----------------------------------------------------------------------------
(* Bounds of the model.                                                    *)

MaxFrames == 2
MaxDetections == 2
MaxDim == 3

-----------------------------------------------------------------------------
(* Natural numbers of any size: sequences of limbs below Base, least       *)
(* significant first, without leading zero limbs.  An operator that reads  *)
(* an argument more than once binds it through a singleton set first, so   *)
(* that the argument is evaluated once.                                    *)

Base == 32768

LimbBits == 15

Precision == 53

Abs(i) == IF i < 0 THEN -i ELSE i

Min(i, j) == IF i < j THEN i ELSE j

\* the position of the highest nonzero limb of x at or below i
RECURSIVE TopLimb(_, _)
TopLimb(x, i) ==
    IF i = 0 THEN 0 ELSE IF x[i] # 0 THEN i ELSE TopLimb(x, i - 1)

BTrim(x0) ==
    CHOOSE r \in { SubSeq(x, 1, TopLimb(x, Len(x))) : x \in {x0} } : TRUE

RECURSIVE BFromInt(_)
BFromInt(i) == IF i = 0 THEN <<>> ELSE <<i % Base>> \o BFromInt(i \div Base)

RECURSIVE BToIntFrom(_, _)
BToIntFrom(x, i) == IF i > Len(x) THEN 0 ELSE x[i] + Base * BToIntFrom(x, i + 1)

BToInt(x0) == CHOOSE r \in { BToIntFrom(x, 1) : x \in {x0} } : TRUE

Limb(x, i) == IF i <= Len(x) THEN x[i] ELSE 0

RECURSIVE BAddFrom(_, _, _, _)
BAddFrom(x, y, i, carry) ==
    IF i > Len(x) /\ i > Len(y)
    THEN (IF carry = 0 THEN <<>> ELSE <<carry>>)
    ELSE <<(Limb(x, i) + Limb(y, i) + carry) % Base>>
         \o BAddFrom(x, y, i + 1, (Limb(x, i) + Limb(y, i) + carry) \div Base)

BAdd(x0, y0) ==
    CHOOSE r \in { BAddFrom(x, y, 1, 0) : x \in {x0}, y \in {y0} } : TRUE

\* x - y for x >= y
RECURSIVE BSubFrom(_, _, _, _)
BSubFrom(x, y, i, borrow) ==
    IF i > Len(x) THEN <<>>
    ELSE <<(x[i] - Limb(y, i) - borrow) % Base>>
         \o BSubFrom(x, y, i + 1,
                     IF x[i] - Limb(y, i) - borrow < 0 THEN 1 ELSE 0)

BSub(x0, y0) ==
    CHOOSE r \in { BTrim(BSubFrom(x, y, 1, 0)) : x \in {x0}, y \in {y0} } : TRUE

\* -1, 0, 1 as the limbs of x and y from position i down compare
RECURSIVE BCmpFrom(_, _, _)
BCmpFrom(x, y, i) ==
    IF i = 0 THEN 0
    ELSE IF x[i] < y[i] THEN -1
    ELSE IF x[i] > y[i] THEN 1
    ELSE BCmpFrom(x, y, i - 1)

BCmp(x0, y0) ==
    CHOOSE r \in { IF Len(x) < Len(y) THEN -1
                   ELSE IF Len(x) > Len(y) THEN 1
                   ELSE BCmpFrom(x, y, Len(x)) : x \in {x0}, y \in {y0} } : TRUE

\* x * k + carry for a limb k
RECURSIVE BMulSmallFrom(_, _, _, _)
BMulSmallFrom(x, k, i, carry) ==
    IF i > Len(x) THEN (IF carry = 0 THEN <<>> ELSE <<carry>>)
    ELSE <<(x[i] * k + carry) % Base>>
         \o BMulSmallFrom(x, k, i + 1, (x[i] * k + carry) \div Base)

BMulSmall(x0, k0) ==
    CHOOSE r \in { BTrim(BMulSmallFrom(x, k, 1, 0)) : x \in {x0}, k \in {k0} } : TRUE

RECURSIVE BMulFrom(_, _, _)
BMulFrom(x, y, i) ==
    IF i > Len(y) THEN <<>>
    ELSE BAdd(BMulSmallFrom(x, y[i], 1, 0), <<0>> \o BMulFrom(x, y, i + 1))

BMul(x0, y0) ==
    CHOOSE r \in { BTrim(BMulFrom(x, y, 1)) : x \in {x0}, y \in {y0} } : TRUE

\* quotient and remainder of x by a limb d > 0, from limb i down; r is the
\* remainder and q the quotient of the limbs above i
RECURSIVE BDivSmallFrom(_, _, _, _, _)
BDivSmallFrom(x, d, i, r, q) ==
    IF i = 0 THEN [q |-> BTrim(q), r |-> r]
    ELSE BDivSmallFrom(x, d, i - 1, (r * Base + x[i]) % d,
                       <<(r * Base + x[i]) \div d>> \o q)

BDivSmall(x0, d0) ==
    CHOOSE r \in { BDivSmallFrom(x, d, Len(x), 0, <<>>) : x \in {x0}, d \in {d0} } : TRUE

Zeros(n) == [i \in 1..n |-> 0]

\* x * 2^n
BShl(x0, n0) ==
    CHOOSE r \in { IF x = <<>> THEN <<>>
                   ELSE Zeros(n \div LimbBits) \o BMulSmall(x, 2 ^ (n % LimbBits))
                   : x \in {x0}, n \in {n0} } : TRUE

\* floor(x / 2^n)
BShr(x0, n0) ==
    CHOOSE r \in { IF n \div LimbBits >= Len(x) THEN <<>>
                   ELSE BDivSmall(SubSeq(x, n \div LimbBits + 1, Len(x)),
                                  2 ^ (n % LimbBits)).q
                   : x \in {x0}, n \in {n0} } : TRUE

RECURSIVE IntBitLen(_)
IntBitLen(i) == IF i = 0 THEN 0 ELSE 1 + IntBitLen(i \div 2)

BitLen(x0) ==
    CHOOSE r \in { IF x = <<>> THEN 0
                   ELSE LimbBits * (Len(x) - 1) + IntBitLen(x[Len(x)])
                   : x \in {x0} } : TRUE

BOdd(x) == x # <<>> /\ x[1] % 2 = 1

-----------------------------------------------------------------------------
(* JavaScript numbers: IEEE-754 doubles.  A finite number is s * m * 2^e   *)
(* with a significand m of exactly Precision bits (m = <<>> for zero); k   *)
(* tells finite numbers from the infinities and NaN.  Subnormal numbers,   *)
(* overflow and the sign of zero are outside the range of the model.       *)

Finite(s, m, e) == [k |-> "fin", s |-> s, m |-> m, e |-> e]

Zero == Finite(1, <<>>, 0)

Infinity(s) == [k |-> "inf", s |-> s, m |-> <<>>, e |-> 0]

NaN == [k |-> "nan", s |-> 1, m |-> <<>>, e |-> 0]

IsNaN(a) == a.k = "nan"

IsFinite(a) == a.k = "fin"

IsZero(a) == a.k = "fin" /\ a.m = <<>>

\* x of more than Precision bits cut to q = floor(x / 2^drop) and rounded:
\* half is -1, 0, 1 as the bits cut off compare with 2^(drop - 1)
RoundCut(s, q, e, drop, half, sticky) ==
    IF half > 0 \/ (half = 0 /\ (sticky \/ BOdd(q)))
    THEN CHOOSE r \in { IF BitLen(m) > Precision
                        THEN Finite(s, BShr(m, 1), e + drop + 1)
                        ELSE Finite(s, m, e + drop)
                        : m \in {BAdd(q, <<1>>)} } : TRUE
    ELSE Finite(s, q, e + drop)

\* the double nearest to s * x * 2^e, ties to even; sticky tells that the
\* exact value lies above x * 2^e by less than 2^e
RoundNearest(s0, x0, e0, sticky0) ==
    CHOOSE r \in
        { IF x = <<>> THEN Zero
          ELSE IF len <= Precision
          THEN Finite(s, BShl(x, Precision - len), e - (Precision - len))
          ELSE CHOOSE c \in
                  { RoundCut(s, q, e, len - Precision,
                        BCmp(BSub(x, BShl(q, len - Precision)),
                             BShl(<<1>>, len - Precision - 1)), sticky)
                    : q \in {BShr(x, len - Precision)} } : TRUE
          : s \in {s0}, x \in {x0}, e \in {e0}, sticky \in {sticky0},
            len \in {BitLen(x0)} } : TRUE

\* the number of an integer
R(i) == RoundNearest(IF i < 0 THEN -1 ELSE 1, BFromInt(Abs(i)), 0, FALSE)

\* a * b
Mul(a0, b0) ==
    CHOOSE r \in
        { IF IsNaN(a) \/ IsNaN(b) THEN NaN
          ELSE IF a.k = "inf" \/ b.k = "inf"
          THEN (IF IsZero(a) \/ IsZero(b) THEN NaN ELSE Infinity(a.s * b.s))
          ELSE RoundNearest(a.s * b.s, BMul(a.m, b.m), a.e + b.e, FALSE)
          : a \in {a0}, b \in {b0} } : TRUE

Neg(a0) ==
    CHOOSE r \in { IF IsNaN(a) \/ IsZero(a) THEN a ELSE [a EXCEPT !.s = -a.s]
                   : a \in {a0} } : TRUE

\* a + b for finite a and b other than zero, x and y being their
\* significands at the exponent e
AddAligned(a, b, x, y, e, cmp) ==
    IF a.s = b.s THEN RoundNearest(a.s, BAdd(x, y), e, FALSE)
    ELSE IF cmp = 0 THEN Zero
    ELSE IF cmp > 0 THEN RoundNearest(a.s, BSub(x, y), e, FALSE)
    ELSE RoundNearest(b.s, BSub(y, x), e, FALSE)

\* a + b
Add(a0, b0) ==
    CHOOSE r \in
        { IF IsNaN(a) \/ IsNaN(b) THEN NaN
          ELSE IF a.k = "inf" /\ b.k = "inf" THEN (IF a.s = b.s THEN a ELSE NaN)
          ELSE IF a.k = "inf" THEN a
          ELSE IF b.k = "inf" THEN b
          ELSE IF IsZero(a) THEN b
          ELSE IF IsZero(b) THEN a
          ELSE CHOOSE c \in
                  { AddAligned(a, b, x, y, Min(a.e, b.e), BCmp(x, y))
                    : x \in {BShl(a.m, a.e - Min(a.e, b.e))},
                      y \in {BShl(b.m, b.e - Min(a.e, b.e))} } : TRUE
          : a \in {a0}, b \in {b0} } : TRUE

\* a - b
Sub(a, b) == Add(a, Neg(b))

\* the integer a finite, integer-valued number stands for
IntOf(a0) ==
    CHOOSE r \in { IF a.m = <<>> THEN 0 ELSE a.s * BToInt(BShr(a.m, -a.e))
                   : a \in {a0} } : TRUE

\* a / b for a divisor that is an integer below Base in magnitude, an
\* infinity or NaN: every divisor of the program is a dimension of the video
\* element or the literal 2
Div(a0, b0) ==
    CHOOSE r \in
        { IF IsNaN(a) \/ IsNaN(b) THEN NaN
          ELSE IF b.k = "inf" THEN (IF a.k = "inf" THEN NaN ELSE Zero)
          ELSE IF IsZero(b) THEN (IF IsZero(a) THEN NaN ELSE Infinity(a.s))
          ELSE IF a.k = "inf" THEN Infinity(a.s * b.s)
          ELSE IF IsZero(a) THEN Zero
          ELSE CHOOSE c \in
                  { RoundNearest(a.s * b.s, d.q, a.e - 4 * LimbBits, d.r # 0)
                    : d \in {BDivSmall(BShl(a.m, 4 * LimbBits), Abs(IntOf(b)))} }
                  : TRUE
          : a \in {a0}, b \in {b0} } : TRUE

\* -1, 0, 1 as the sign of a number other than NaN
SignOf(a) == IF IsZero(a) THEN 0 ELSE a.s

\* -1, 0, 1 as |a| and |b| compare, for numbers other than zero and NaN
MagCmp(a, b) ==
    IF a.k = "inf" \/ b.k = "inf"
    THEN (IF a.k = b.k THEN 0 ELSE IF a.k = "inf" THEN 1 ELSE -1)
    ELSE IF a.e # b.e THEN (IF a.e > b.e THEN 1 ELSE -1)
    ELSE BCmp(a.m, b.m)

\* a > b  (false when either side is NaN)
Gt(a0, b0) ==
    \E a \in {a0}, b \in {b0} :
        /\ ~IsNaN(a)
        /\ ~IsNaN(b)
        /\ IF SignOf(a) # SignOf(b) THEN SignOf(a) > SignOf(b)
           ELSE SignOf(a) # 0 /\ SignOf(a) * MagCmp(a, b) = 1

\* Math.round of a finite number other than zero with a negative exponent:
\* q is the integer part of |a| and half is -1, 0, 1 as its fraction
\* compares with 1/2
RoundHalf(a, q, half) ==
    IF a.s = 1 THEN BToInt(q) + (IF half >= 0 THEN 1 ELSE 0)
    ELSE -(BToInt(q) + (IF half > 0 THEN 1 ELSE 0))

\* Math.round of a finite number: the nearest integer, ties upwards
Round(a0) ==
    CHOOSE r \in
        { IF IsZero(a) THEN 0
          ELSE IF a.e >= 0 THEN a.s * BToInt(BShl(a.m, a.e))
          ELSE CHOOSE c \in
                  { RoundHalf(a, q, BCmp(BSub(a.m, BShl(q, -a.e)),
                                         BShl(<<1>>, -a.e - 1)))
                    : q \in {BShr(a.m, -a.e)} } : TRUE
          : a \in {a0} } : TRUE

-----------------------------------------------------------------------------
(* The object-fit: cover transform of displayImageDetections.              *)

\* ScaleByWidth with the height left unscaled in the offset
ScaleByWidthUnscaled(v) ==
    LET scaleX == Div(R(v.offsetWidth), R(v.videoWidth))
    IN  [scaleX |-> scaleX, scaleY |-> scaleX, offsetX |-> R(0),
         offsetY |-> Div(Sub(R(v.offsetHeight), R(v.videoHeight)), R(2))]

\* the else branch: scale by width, crop height
ScaleByWidth(v) ==
    LET scaleX == Div(R(v.offsetWidth), R(v.videoWidth))
        scaleY == scaleX
        scaledHeight == Mul(R(v.videoHeight), scaleY)
    IN  [scaleX |-> scaleX, scaleY |-> scaleY, offsetX |-> R(0),
         offsetY |-> Div(Sub(R(v.offsetHeight), scaledHeight), R(2))]

\* the then branch: scale by height, crop width
ScaleByHeight(v) ==
    LET scaleY == Div(R(v.offsetHeight), R(v.videoHeight))
        scaleX == scaleY
        scaledWidth == Mul(R(v.videoWidth), scaleX)
    IN  [scaleX |-> scaleX, scaleY |-> scaleY,
         offsetX |-> Div(Sub(R(v.offsetWidth), scaledWidth), R(2)),
         offsetY |-> R(0)]

VideoAspect(v) == Div(R(v.videoWidth), R(v.videoHeight))

ContainerAspect(v) == Div(R(v.offsetWidth), R(v.offsetHeight))

\* Transform with the comparison the other way round (letterboxing)
TransformContain(v) ==
    IF Gt(ContainerAspect(v), VideoAspect(v)) THEN ScaleByHeight(v)
    ELSE ScaleByWidth(v)

Transform(v) ==
    IF Gt(VideoAspect(v), ContainerAspect(v)) THEN ScaleByHeight(v)
    ELSE ScaleByWidth(v)

-----------------------------------------------------------------------------
(* Detections returned by the detector.  An optional field is a sequence   *)
(* of length 0 (undefined) or 1.                                           *)

Box == [originX |-> 100, originY |-> 100, width |-> 200, height |-> 150]

Kp(xn, xd, yn, yd) == [x |-> Div(R(xn), R(xd)), y |-> Div(R(yn), R(yd))]

\* a face seen straight on: both eyes well away from the middle of the jaw line
StraightKeypoints ==
    << Kp(1, 5, 2, 5), Kp(4, 5, 2, 5), Kp(1, 2, 3, 5),
       Kp(1, 2, 4, 5), Kp(0, 1, 1, 2), Kp(1, 1, 1, 2) >>

\* a face in profile: keypoint 0 sits on the middle of the jaw line
TurnedKeypoints ==
    << Kp(1, 2, 2, 5), Kp(4, 5, 2, 5), Kp(3, 5, 3, 5),
       Kp(3, 5, 4, 5), Kp(0, 1, 1, 2), Kp(1, 1, 1, 2) >>

Score == Div(R(9), R(10))

Face ==
    [boundingBox |-> <<Box>>, categories |-> <<[score |-> Score]>>,
     keypoints |-> <<StraightKeypoints>>]

TurnedFace ==
    [boundingBox |-> <<Box>>, categories |-> <<[score |-> Score]>>,
     keypoints |-> <<TurnedKeypoints>>]

\* a detection without boundingBox
NoBox ==
    [boundingBox |-> <<>>, categories |-> <<[score |-> Score]>>,
     keypoints |-> <<>>]

\* a detection whose categories list is empty
NoCategories ==
    [boundingBox |-> <<Box>>, categories |-> <<>>, keypoints |-> <<>>]

DetectionValues == {Face, NoBox, NoCategories}

ListsOver(values) == UNION {[1..n -> values] : n \in 0..MaxDetections}

\* the result.detections a detector call can resolve with
DetectionLists == ListsOver(DetectionValues)

\* the same with faces in profile among them
ProfileLists == ListsOver(DetectionValues \cup {TurnedFace})

-----------------------------------------------------------------------------
(* The video element's geometry.                                           *)

Geometry(vw, vh, ow, oh) ==
    [videoWidth |-> vw, videoHeight |-> vh, offsetWidth |-> ow, offsetHeight |-> oh]

\* geometries the running page moves between: a 16:9 stream in a 4:3 box
\* and the same stream in a 16:9 box
Layouts ==
    { Geometry(1280, 720, 640, 480), Geometry(1280, 720, 640, 360) }

\* equal aspect ratios under which naturalHeight * scaleY is not computed
\* exactly: it misses displayedHeight from below and from above
ResidueGeometries ==
    { Geometry(640, 480, 164, 123), Geometry(640, 480, 332, 249) }

\* every geometry with dimensions up to MaxDim
SmallGeometries ==
    { Geometry(vw, vh, ow, oh) : vw \in 0..MaxDim, vh \in 0..MaxDim,
                                 ow \in 0..MaxDim, oh \in 0..MaxDim }

\* the geometries of the model
Geometries == Layouts \cup SmallGeometries \cup ResidueGeometries

\* Transform tabulated over the geometries of the model, so that each
\* transform is computed once
Transforms == [v \in Geometries |-> Transform(v)]

-----------------------------------------------------------------------------
(* Overlay elements.                                                       *)

Highlighter(left, top, width, height) ==
    [cls |-> "highlighter",
     left |-> left, top |-> top, width |-> width, height |-> height]

Info(score, left, top, width) ==
    [cls |-> "info", innerText |-> Round(Mul(score, R(100))),
     left |-> left, top |-> Sub(top, R(30)), width |-> Sub(width, R(10))]

KeyPoint(keypointX, keypointY) ==
    [cls |-> "key-point",
     left |-> Sub(keypointX, R(3)), top |-> Sub(keypointY, R(3))]

\* lines 319-329: one span per keypoint of a detection
KeypointElements(kps, v, t) ==
    [k \in 1..Len(kps) |->
        KeyPoint(Add(Mul(Mul(kps[k].x, R(v.videoWidth)), t.scaleX), t.offsetX),
                 Add(Mul(Mul(kps[k].y, R(v.videoHeight)), t.scaleY), t.offsetY))]

\* lines 283-330 for one detection that has a boundingBox and a categories[0]
DetectionElements(d, v, t) ==
    LET box == d.boundingBox[1]
        score == d.categories[1].score
        left == Add(Mul(R(box.originX), t.scaleX), t.offsetX)
        top == Add(Mul(R(box.originY), t.scaleY), t.offsetY)
        width == Mul(R(box.width), t.scaleX)
        height == Mul(R(box.height), t.scaleY)
    IN  << Highlighter(left, top, width, height), Info(score, left, top, width) >>
        \o (IF d.keypoints # <<>>
            THEN KeypointElements(d.keypoints[1], v, t)
            ELSE <<>>)

\* the detection is skipped by `if (!detection.boundingBox) continue`
Skipped(d) == d.boundingBox = <<>>

\* reading categories[0].score of this detection throws a TypeError
Throws(d) == d.boundingBox # <<>> /\ d.categories = <<>>

\* DetectionElements tabulated over the geometries and detections of the
\* model, so that each projection is computed once
Projection ==
    [v \in Geometries |->
        [d \in {x \in DetectionValues \cup {TurnedFace} : ~Skipped(x) /\ ~Throws(x)} |->
            DetectionElements(d, v, Transforms[v])]]

\* the nodes appended to liveView for a sequence of elements: frame (the
\* frame whose render created the node) and idx (its position among that
\* render's nodes) identify the node
Nodes(elements, frame, base) ==
    [k \in 1..Len(elements) |->
        [frame |-> frame, idx |-> base + k, el |-> elements[k]]]

\* lines 280-331: the loop over the detections from position i on; it stops
\* at the first detection that throws.  projected gives the elements of each
\* detection under the transform of this render.
RECURSIVE RenderLoop(_, _, _, _, _)
RenderLoop(dets, i, projected, frame, acc) ==
    IF i > Len(dets) THEN [elements |-> acc, threw |-> FALSE, rendered |-> {}]
    ELSE IF Skipped(dets[i]) THEN RenderLoop(dets, i + 1, projected, frame, acc)
    ELSE IF Throws(dets[i]) THEN [elements |-> acc, threw |-> TRUE, rendered |-> {}]
    ELSE LET rest == RenderLoop(dets, i + 1, projected, frame,
                        acc \o Nodes(projected[dets[i]], frame, Len(acc)))
         IN  [rest EXCEPT !.rendered = @ \cup {i}]

\* RemoveChildren that leaves the key-point spans in liveView
RemoveBoxes(lv, ch) ==
    SelectSeq(lv, LAMBDA e : e.el.cls = "key-point" \/ \A k \in 1..Len(ch) : ch[k] # e)

\* lines 245-248: the elements of this.children leave liveView and the list
\* is emptied
RemoveChildren(lv, ch) ==
    SelectSeq(lv, LAMBDA e : \A k \in 1..Len(ch) : ch[k] # e)

\* a divisor of lines 258-277 is zero
ZeroDivisor(v) ==
    \/ v.videoHeight = 0
    \/ v.offsetHeight = 0
    \/ (~Gt(VideoAspect(v), ContainerAspect(v)) /\ v.videoWidth = 0)

displayImageDetections(detections, v, frame, lv, ch) ==
    CHOOSE r \in
        { [liveView |-> RemoveChildren(lv, ch) \o loop.elements,
           children |-> loop.elements,
           threw |-> loop.threw,
           rendered |-> loop.rendered,
           transform |-> Transforms[v]]
          : loop \in {RenderLoop(detections, 1, Projection[v], frame, <<>>)} }
        : TRUE

-----------------------------------------------------------------------------
(* The anomaly banner.                                                     *)

showAnomaly(w, message) ==
    [textContent |-> message, indicatorHidden |-> FALSE,
     overlayHidden |-> FALSE, cardWarning |-> TRUE]

hideAnomaly(w) ==
    [w EXCEPT !.indicatorHidden = TRUE, !.overlayHidden = TRUE,
              !.cardWarning = FALSE]

\* AnomalyLabel without the final else branch
AnomalyLabelNoHide(detections, w) ==
    IF Len(detections) = 0 THEN showAnomaly(w, "No person detected")
    ELSE IF Len(detections) > 1 THEN showAnomaly(w, "Multiple persons detected")
    ELSE w

\* lines 221-227 of detectFace
AnomalyLabel(detections, w) ==
    IF Len(detections) = 0 THEN showAnomaly(w, "No person detected")
    ELSE IF Len(detections) > 1 THEN showAnomaly(w, "Multiple persons detected")
    ELSE hideAnomaly(w)

\* the labels lines 221-227 emit for a frame, by the names of the label set
EmittedLabels(detections) ==
    IF Len(detections) = 0 THEN <<"NoPerson">>
    ELSE IF Len(detections) > 1 THEN <<"MultiplePersons">>
    ELSE <<>>

-----------------------------------------------------------------------------
(* State machine.                                                          *)

\* what the most recent render was given and did: kind is "completed" when
\* detectFace ran to its end and "aborted" when the render threw
Observation(kind, frame, detections, v, rendered, transform) ==
    [kind |-> kind, frame |-> frame, detections |-> detections, video |-> v,
     rendered |-> rendered, transform |-> transform]

NoObservation ==
    Observation("none", 0, <<>>, Geometry(0, 0, 0, 0), {},
                [scaleX |-> NaN, scaleY |-> NaN, offsetX |-> NaN, offsetY |-> NaN])

Init ==
    /\ initPc = "startWebcam"
    /\ faceDetector = FALSE
    /\ timerOn = FALSE
    /\ video \in Layouts
    /\ pending = {}
    /\ nextFrame = 0
    /\ detectCalls = 0
    /\ liveView = <<>>
    /\ children = <<>>
    /\ warning = hideAnomaly(showAnomaly(<<>>, ""))
    /\ failed = {}
    /\ last = NoObservation

\* initialize(), line 96
StartWebcam ==
    /\ initPc = "startWebcam"
    /\ \E ok \in BOOLEAN :
          initPc' = IF ok THEN "initializeMediaPipes" ELSE "failed"
    /\ UNCHANGED <<faceDetector, timerOn, video, pending, nextFrame, detectCalls,
                   liveView, children, warning, failed, last>>

\* InitializeMediaPipes with its failure swallowed: initialize() goes on to
\* the next step without a detector
InitializeMediaPipesUnchecked ==
    /\ initPc = "initializeMediaPipes"
    /\ \E ok \in BOOLEAN :
          /\ initPc' = "displaySystemInfo"
          /\ faceDetector' = ok
    /\ UNCHANGED <<timerOn, video, pending, nextFrame, detectCalls,
                   liveView, children, warning, failed, last>>

\* initialize(), line 97
InitializeMediaPipes ==
    /\ initPc = "initializeMediaPipes"
    /\ \E ok \in BOOLEAN :
          /\ initPc' = IF ok THEN "displaySystemInfo" ELSE "failed"
          /\ faceDetector' = ok
    /\ UNCHANGED <<timerOn, video, pending, nextFrame, detectCalls,
                   liveView, children, warning, failed, last>>

\* initialize(), line 98
DisplaySystemInfo ==
    /\ initPc = "displaySystemInfo"
    /\ \E ok \in BOOLEAN :
          initPc' = IF ok THEN "startFaceDetection" ELSE "failed"
    /\ UNCHANGED <<faceDetector, timerOn, video, pending, nextFrame, detectCalls,
                   liveView, children, warning, failed, last>>

\* initialize(), line 99
StartFaceDetection ==
    /\ initPc = "startFaceDetection"
    /\ initPc' = "done"
    /\ timerOn' = TRUE
    /\ UNCHANGED <<faceDetector, video, pending, nextFrame, detectCalls,
                   liveView, children, warning, failed, last>>

\* the page is laid out again or the stream changes resolution
VideoResize ==
    /\ \E v \in Layouts \ {video} : video' = v
    /\ UNCHANGED <<initPc, faceDetector, timerOn, pending, nextFrame, detectCalls,
                   liveView, children, warning, failed, last>>

\* the interval callback: detectFace up to its await (lines 211-214)
TimerTick ==
    /\ timerOn
    /\ nextFrame < MaxFrames
    /\ IF ~faceDetector
       THEN UNCHANGED vars
       ELSE \E context \in BOOLEAN :
              /\ nextFrame' = nextFrame + 1
              /\ IF context
                 THEN /\ detectCalls' = detectCalls + 1
                      /\ pending' = pending \cup {nextFrame + 1}
                 ELSE UNCHANGED <<detectCalls, pending>>
              /\ UNCHANGED <<initPc, faceDetector, timerOn, video, liveView,
                             children, warning, failed, last>>

\* DetectResolved that drops the result of a frame older than the one shown
DetectResolvedNewest(frame, detections) ==
    /\ frame \in pending
    /\ pending' = pending \ {frame}
    /\ \E r \in {displayImageDetections(detections, video, frame, liveView, children)},
          stale \in {frame < last.frame} :
           /\ liveView' = IF stale THEN liveView ELSE r.liveView
           /\ children' = IF stale THEN children ELSE r.children
           /\ warning' = IF stale \/ r.threw THEN warning
                         ELSE AnomalyLabel(detections, warning)
           /\ last' = IF stale THEN last
                      ELSE Observation(IF r.threw THEN "aborted" ELSE "completed",
                                       frame, detections, video, r.rendered,
                                       r.transform)
    /\ UNCHANGED <<initPc, faceDetector, timerOn, video, nextFrame, detectCalls,
                   failed>>

\* the detector resolves: detectFace after its await (lines 215-227)
DetectResolved(frame, detections) ==
    /\ frame \in pending
    /\ pending' = pending \ {frame}
    /\ \E r \in {displayImageDetections(detections, video, frame, liveView, children)} :
           /\ liveView' = r.liveView
           /\ children' = r.children
           /\ warning' = IF r.threw THEN warning ELSE AnomalyLabel(detections, warning)
           /\ last' = Observation(IF r.threw THEN "aborted" ELSE "completed",
                                  frame, detections, video, r.rendered,
                                  r.transform)
    /\ UNCHANGED <<initPc, faceDetector, timerOn, video, nextFrame, detectCalls,
                   failed>>

\* DetectRejected that goes on as if the detector had found nothing
DetectRejectedAsEmpty(frame) ==
    /\ frame \in pending
    /\ pending' = pending \ {frame}
    /\ failed' = failed \cup {frame}
    /\ liveView' = RemoveChildren(liveView, children)
    /\ children' = <<>>
    /\ warning' = AnomalyLabel(<<>>, warning)
    /\ UNCHANGED <<initPc, faceDetector, timerOn, video, nextFrame, detectCalls,
                   last>>

\* the detector call fails: the await of line 214 throws
DetectRejected(frame) ==
    /\ frame \in pending
    /\ pending' = pending \ {frame}
    /\ failed' = failed \cup {frame}
    /\ UNCHANGED <<initPc, faceDetector, timerOn, video, nextFrame, detectCalls,
                   liveView, children, warning, last>>

Next ==
    \/ StartWebcam
    \/ InitializeMediaPipes
    \/ DisplaySystemInfo
    \/ StartFaceDetection
    \/ VideoResize
    \/ TimerTick
    \/ \E frame \in pending, detections \in DetectionLists :
          DetectResolved(frame, detections)
    \/ \E frame \in pending : DetectRejected(frame)

Spec == Init /\ [][Next]_vars

\* the transform and the render on their own: one frame awaiting its
\* detections under each geometry of SmallGeometries and ResidueGeometries
InitGeometry ==
    /\ initPc = "done"
    /\ faceDetector = TRUE
    /\ timerOn = TRUE
    /\ video \in SmallGeometries \cup ResidueGeometries
    /\ pending = {1}
    /\ nextFrame = MaxFrames
    /\ detectCalls = 1
    /\ liveView = <<>>
    /\ children = <<>>
    /\ warning = hideAnomaly(showAnomaly(<<>>, ""))
    /\ failed = {}
    /\ last = NoObservation

NextGeometry ==
    \E frame \in pending, detections \in ProfileLists :
        DetectResolved(frame, detections)

SpecGeometry == InitGeometry /\ [][NextGeometry]_vars

-----------------------------------------------------------------------------
(* Face orientation, as the specification describes it (section 4.2).      *)

AbsR(a) == IF a.s < 0 THEN Neg(a) ELSE a

Threshold == Div(R(3), R(20))

isFaceTurned(d) ==
    LET w == R(d.boundingBox[1].width)
        kps == d.keypoints[1]
        leftEyeX == Mul(kps[1].x, w)
        rightEyeX == Mul(kps[2].x, w)
        jawLeftX == Mul(kps[5].x, w)
        jawRightX == Mul(kps[6].x, w)
        faceWidth == Sub(jawRightX, jawLeftX)
        faceCenterX == Div(Add(jawLeftX, jawRightX), R(2))
    IN  \/ Gt(Mul(Threshold, faceWidth), AbsR(Sub(leftEyeX, faceCenterX)))
        \/ Gt(Mul(Threshold, faceWidth), AbsR(Sub(rightEyeX, faceCenterX)))

-----------------------------------------------------------------------------
(* Properties.                                                             *)

\* the banner shows this message
Shown(message) ==
    /\ warning.textContent = message
    /\ ~warning.indicatorHidden
    /\ ~warning.overlayHidden
    /\ warning.cardWarning

\* the banner shows nothing
NothingShown ==
    /\ warning.indicatorHidden
    /\ warning.overlayHidden
    /\ ~warning.cardWarning

\* C1: after a detection cycle that ran to completion the banner is decided
\* by that frame's detection count alone: 'No person detected' is shown iff
\* the count is 0, 'Multiple persons detected' iff it is above 1, and nothing
\* is shown iff it is 1, whatever the banner showed before.
C1_AnomalyFollowsCount ==
    last.kind = "completed" =>
        LET count == Len(last.detections)
        IN  /\ Shown("No person detected") <=> count = 0
            /\ Shown("Multiple persons detected") <=> count > 1
            /\ NothingShown <=> count = 1

\* a completed one-detection frame whose banner still carries the message
\* of an earlier frame
C1_Witness ==
    /\ last.kind = "completed"
    /\ Len(last.detections) = 1
    /\ warning.textContent = "Multiple persons detected"
    /\ NothingShown

\* C2: a frame with exactly one detection emits PersonDetected, and
\* FaceTurned as well when isFaceTurned holds of the detection.
C2_SingleDetectionLabels ==
    (/\ last.kind = "completed"
     /\ Len(last.detections) = 1
     /\ last.detections[1].keypoints # <<>>)
    => EmittedLabels(last.detections) =
          IF isFaceTurned(last.detections[1])
          THEN <<"PersonDetected", "FaceTurned">>
          ELSE <<"PersonDetected">>

\* the geometry and the frame of the worked example
ExampleRendered ==
    /\ last.kind = "completed"
    /\ last.video = Geometry(1280, 720, 640, 480)
    /\ last.detections = <<Face>>

\* C3 as stated: native 1280x720 shown in 640x480 gives scale 1/2, offsetX 0,
\* offsetY 60, and the box {100, 100, 200, 150} is drawn at
\* {left 50, top 110, width 100, height 75}.
StatedTransform ==
    [scaleX |-> Div(R(1), R(2)), scaleY |-> Div(R(1), R(2)),
     offsetX |-> R(0), offsetY |-> R(60)]

StatedBox == Highlighter(R(50), R(110), R(100), R(75))

C3_ExampleAsStated ==
    ExampleRendered =>
        /\ last.transform = StatedTransform
        /\ liveView[1].el = StatedBox

\* the doubles 0.6666666666666666, -106.66666666666663, -39.99999999999997,
\* 66.66666666666666 and 133.33333333333331
TwoThirds == Finite(1, <<21845, 10922, 21845, 170>>, -53)

ExampleOffsetX == Finite(-1, <<10920, 21845, 10922, 213>>, -46)

ExampleLeft == Finite(-1, <<32764, 32767, 32767, 159>>, -47)

ExampleTop == Finite(1, <<10922, 21845, 10922, 133>>, -46)

ExampleWidth == Finite(1, <<10922, 21845, 10922, 133>>, -45)

\* C3 amended: native 1280x720 shown in 640x480 gives scale
\* 0.6666666666666666 (480 / 720) on both axes, offsetX -106.66666666666663,
\* offsetY 0, and the box {100, 100, 200, 150} is drawn at
\* {left -39.99999999999997, top 66.66666666666666,
\*  width 133.33333333333331, height 100}.
ExampleTransform ==
    [scaleX |-> TwoThirds, scaleY |-> TwoThirds,
     offsetX |-> ExampleOffsetX, offsetY |-> Zero]

ExampleBox == Highlighter(ExampleLeft, ExampleTop, ExampleWidth, R(100))

DisplayedOverNative == Div(R(480), R(720))

C3_Example ==
    ExampleRendered =>
        /\ last.transform = ExampleTransform
        /\ last.transform.scaleX = DisplayedOverNative
        /\ liveView[1].el = ExampleBox

C3_Witness == ExampleRendered /\ Len(liveView) > 0

\* a render has run under a geometry whose four dimensions are positive
PositiveRendered ==
    /\ last.kind # "none"
    /\ last.video.videoWidth > 0
    /\ last.video.videoHeight > 0
    /\ last.video.offsetWidth > 0
    /\ last.video.offsetHeight > 0

\* the native and displayed aspect ratios of the last render are equal
EqualAspect ==
    last.video.videoWidth * last.video.offsetHeight =
        last.video.offsetWidth * last.video.videoHeight

\* displayedHeight * 2^-52 for each geometry: above the rounding error of
\* the product naturalHeight * scaleY when that product is displayedHeight
Residue ==
    [v \in Geometries |->
        Mul(R(v.offsetHeight), RoundNearest(1, <<1>>, -52, FALSE))]

\* offsetY is zero or a rounding residue
NegligibleOffsetY ==
    /\ IsFinite(last.transform.offsetY)
    /\ ~Gt(AbsR(last.transform.offsetY), Residue[last.video])

\* C4 as stated: with four positive dimensions both offsets are >= 0.
C4_OffsetsNonNegative ==
    PositiveRendered =>
        /\ ~Gt(Zero, last.transform.offsetX)
        /\ ~Gt(Zero, last.transform.offsetY)

\* C4 amended: with four positive dimensions offsetX <= 0, and offsetY <= 0
\* unless the aspect ratios are equal, where offsetY is zero or a rounding
\* residue of either sign, at most displayedHeight * 2^-52 in magnitude.
C4_OffsetsNonPositive ==
    PositiveRendered =>
        /\ IsFinite(last.transform.offsetX)
        /\ IsFinite(last.transform.offsetY)
        /\ ~Gt(last.transform.offsetX, Zero)
        /\ ~EqualAspect => ~Gt(last.transform.offsetY, Zero)
        /\ EqualAspect => NegligibleOffsetY

\* a render whose video is cropped on the left and right
C4_Witness ==
    /\ PositiveRendered
    /\ Gt(Zero, last.transform.offsetX)
    /\ Len(liveView) > 0

\* displayed.w / native.w and displayed.h / native.h for each geometry
WidthRatio == [v \in Geometries |-> Div(R(v.offsetWidth), R(v.videoWidth))]

HeightRatio == [v \in Geometries |-> Div(R(v.offsetHeight), R(v.videoHeight))]

\* C5 as stated: with four positive dimensions exactly one offset is nonzero
\* when the aspect ratios differ, and both are zero, with the scale equal to
\* displayed.w / native.w and to displayed.h / native.h, exactly when they
\* are equal.
C5_ZeroIffEqualAspect ==
    PositiveRendered =>
        LET t == last.transform
        IN  /\ ~EqualAspect => (IsZero(t.offsetX) # IsZero(t.offsetY))
            /\ EqualAspect <=> (IsZero(t.offsetX) /\ IsZero(t.offsetY))
            /\ EqualAspect =>
                  /\ t.scaleX = WidthRatio[last.video]
                  /\ t.scaleX = HeightRatio[last.video]
                  /\ t.scaleY = t.scaleX

\* C5 amended: with four positive dimensions exactly one offset is nonzero
\* when the aspect ratios differ; when they are equal offsetX is zero, the
\* scale is displayed.w / native.w = displayed.h / native.h on both axes,
\* and offsetY is zero or a rounding residue of at most
\* displayedHeight * 2^-52; both offsets are zero only when they are equal.
C5_OneOffsetUnlessEqualAspect ==
    PositiveRendered =>
        LET t == last.transform
        IN  /\ ~EqualAspect => (IsZero(t.offsetX) # IsZero(t.offsetY))
            /\ (IsZero(t.offsetX) /\ IsZero(t.offsetY)) => EqualAspect
            /\ EqualAspect =>
                  /\ IsZero(t.offsetX)
                  /\ NegligibleOffsetY
                  /\ t.scaleX = WidthRatio[last.video]
                  /\ t.scaleX = HeightRatio[last.video]
                  /\ t.scaleY = t.scaleX

\* a render under equal aspect ratios that leaves a residue in offsetY
C5_Witness ==
    /\ PositiveRendered
    /\ EqualAspect
    /\ IsZero(last.transform.offsetX)
    /\ ~IsZero(last.transform.offsetY)
    /\ Len(liveView) > 0

\* detection i of the last rendered frame lacks its boundingBox or has no
\* category
Malformed(i) ==
    \/ last.detections[i].boundingBox = <<>>
    \/ last.detections[i].categories = <<>>

\* C6: a detection without boundingBox or with empty categories is skipped
\* for rendering only: the cycle is not aborted, every other detection of the
\* frame is rendered, and the banner follows the full detection count.
C6_MalformedSkipped ==
    (last.kind # "none" /\ \E i \in 1..Len(last.detections) : Malformed(i)) =>
        /\ last.kind = "completed"
        /\ last.rendered = {i \in 1..Len(last.detections) : ~Malformed(i)}
        /\ C1_AnomalyFollowsCount

\* C7: the overlay nodes in liveView all belong to one frame, the frame of
\* the most recent render, and are exactly the nodes this.children tracks.
C7_OverlaysOfOneFrame ==
    /\ \A k \in 1..Len(liveView) : liveView[k].frame = last.frame
    /\ liveView = children

\* the later render aborted part-way, after an overlapping earlier render:
\* both frames called the detector, neither call is pending or failed, and
\* the frame rendered last left some nodes before it threw
C7_Witness ==
    /\ detectCalls = 2
    /\ pending = {}
    /\ failed = {}
    /\ last.kind = "aborted"
    /\ Len(liveView) > 0

\* a render has run under a geometry with a zero dimension
DegenerateRendered ==
    /\ last.kind # "none"
    /\ \/ last.video.videoWidth = 0
       \/ last.video.videoHeight = 0
       \/ last.video.offsetWidth = 0
       \/ last.video.offsetHeight = 0

\* C8: under a geometry with a zero dimension displayImageDetections divides
\* by no zero divisor and positions no overlay element.
C8_DegenerateRefused ==
    DegenerateRendered => (~ZeroDivisor(last.video) /\ liveView = <<>>)

\* C9: a step in which a detector call fails leaves the overlays, the
\* tracked children and the banner as they were, renders nothing, and calls
\* the detector no further time.
C9_FailureChangesNothing ==
    [][failed' # failed =>
          /\ liveView' = liveView
          /\ children' = children
          /\ warning' = warning
          /\ last' = last
          /\ detectCalls' = detectCalls]_vars

\* a detector call has failed while overlays and an anomaly are on display
C9_Witness ==
    /\ failed # {}
    /\ Len(liveView) > 0
    /\ Shown("Multiple persons detected")

\* C10: whenever a pending detector call resolves, its frame is rendered and
\* replaces what is on display, also when a later-captured frame has been
\* rendered before it.
C10_ResolvedFrameIsRendered ==
    [][\A f \in pending :
          (f \notin pending' /\ f \notin failed') =>
              /\ last'.frame = f
              /\ \A k \in 1..Len(liveView') : liveView'[k].frame = f]_vars

\* two cycles overlapped and rendered out of order: both frames called the
\* detector, neither call is pending or failed, and the frame captured first
\* is the one rendered last, its overlays and banner on display
C10_Witness ==
    /\ detectCalls >= 2
    /\ 1 \notin pending /\ 2 \notin pending
    /\ 1 \notin failed /\ 2 \notin failed
    /\ last.kind = "completed"
    /\ last.frame = 1
    /\ Len(liveView) > 0
    /\ \A k \in 1..Len(liveView) : liveView[k].frame = 1
    /\ Shown("Multiple persons detected")

\* two detectFace invocations await the detector at once
OverlapReached == Cardinality(pending) >= 2

\* the positions of initialize() in the order of lines 96-99: the three
\* awaited steps, the start of the timer, and the end
InitOrder ==
    << "startWebcam", "initializeMediaPipes", "displaySystemInfo",
       "startFaceDetection", "done" >>

\* initialize() moves one position forward, or from an awaited step that
\* failed to the catch of line 100
InitAdvances ==
    \/ \E k \in 1..(Len(InitOrder) - 1) :
          initPc = InitOrder[k] /\ initPc' = InitOrder[k + 1]
    \/ \E k \in 1..3 : initPc = InitOrder[k] /\ initPc' = "failed"

\* C11: the detector is never invoked before initialization has succeeded.
\* The timer is on only when startWebcam, initializeMediaPipes and
\* displaySystemInfo have each completed, in that order, and the detector
\* exists; it is started in the step that follows the third of them; while
\* it is off no frame has been captured and no detector call made; and once
\* one of the three has failed the timer stays off for ever.
C11_TimerAfterInitialization ==
    /\ [](timerOn => (initPc = "done" /\ faceDetector))
    /\ [](~timerOn => (nextFrame = 0 /\ detectCalls = 0 /\ pending = {}))
    /\ [](initPc = "failed" => ~timerOn)
    /\ [][/\ initPc' # initPc => InitAdvances
          /\ (timerOn' /\ ~timerOn) => initPc = "startFaceDetection"
          /\ timerOn => timerOn'
          /\ initPc = "failed" => (initPc' = "failed" /\ ~timerOn')]_vars

\* the timer has been started and a detection cycle has called the detector
C11_Witness == timerOn /\ initPc = "done" /\ detectCalls > 0

\* displaySystemInfo has failed after the detector was created
C11_FailedWithDetector == initPc = "failed" /\ faceDetector

====
